---- MODULE Spec2Model ----
(***************************************************************************)
(* Model of gui_attendance_system.py: the gallery store and attendance     *)
(* ledger (FaceDataManager), the capture/recognition worker (CameraThread) *)
(* and the frame consumer of the UI (CTKAttendanceApp._update_frame).      *)
(*                                                                         *)
(* Text is modelled as sequences of one-character strings, so that the     *)
(* file-name clean-up, the CSV row layout and the CSV parsing are computed *)
(* the way the code computes them.  Embeddings are integers in tenths, the *)
(* distance between two of them is the absolute difference.                *)
(***************************************************************************)
EXTENDS Integers, Sequences, FiniteSets, TLC

(***************************************************************************)
(* Python string primitives used by the code                               *)
(***************************************************************************)

\* str.lower() on one character (the upper-case letters that occur in the
\* modelled file names)
LowerChar(c) ==
    CASE c = "J" -> "j"
      [] c = "P" -> "p"
      [] c = "G" -> "g"
      [] c = "N" -> "n"
      [] OTHER -> c

Lower(s) == [i \in 1..Len(s) |-> LowerChar(s[i])]

\* str.endswith(suffix)
EndsWith(s, suf) ==
    /\ Len(suf) <= Len(s)
    /\ SubSeq(s, Len(s) - Len(suf) + 1, Len(s)) = suf

\* str.startswith(prefix)
StartsWith(s, pre) ==
    /\ Len(pre) <= Len(s)
    /\ SubSeq(s, 1, Len(pre)) = pre

\* str.replace(old, new) for single characters
Replace(s, old, new) == [i \in 1..Len(s) |-> IF s[i] = old THEN new ELSE s[i]]

\* c in s
Contains(s, c) == \E i \in 1..Len(s) : s[i] = c

\* str.rfind(c): the last index of c, 0 when absent (Python: -1)
RFind(s, c) ==
    IF Contains(s, c)
    THEN CHOOSE i \in 1..Len(s) : s[i] = c /\ \A j \in (i+1)..Len(s) : s[j] # c
    ELSE 0

\* os.path.splitext(p)[0]: cut at the last dot, unless only dots precede it
SplitExtRoot(p) ==
    LET d == RFind(p, ".")
    IN  IF d > 0 /\ \E k \in 1..(d-1) : p[k] # "."
        THEN SubSeq(p, 1, d - 1)
        ELSE p

\* str.split(sep) for a one-character separator: the list of fields
RECURSIVE Split(_, _)
Split(s, sep) ==
    IF ~Contains(s, sep)
    THEN <<s>>
    ELSE LET i == CHOOSE k \in 1..Len(s) : s[k] = sep /\ \A j \in 1..(k-1) : s[j] # sep
         IN  <<SubSeq(s, 1, i - 1)>> \o Split(SubSeq(s, i + 1, Len(s)), sep)

\* sep.join(parts)
RECURSIVE Join(_, _)
Join(parts, sep) ==
    IF Len(parts) = 0 THEN <<>>
    ELSE IF Len(parts) = 1 THEN parts[1]
    ELSE parts[1] \o <<sep>> \o Join(Tail(parts), sep)

Digits == {"0", "1", "2", "3", "4", "5", "6", "7", "8", "9"}

\* str.isdigit(): non-empty and all digits
IsDigit(s) == Len(s) > 0 /\ \A i \in 1..Len(s) : s[i] \in Digits

Whitespace == {" ", "\n", "\t"}

\* str.strip(): drop leading and trailing whitespace
RECURSIVE Strip(_)
Strip(s) ==
    IF Len(s) = 0 THEN s
    ELSE IF s[1] \in Whitespace THEN Strip(Tail(s))
    ELSE IF s[Len(s)] \in Whitespace THEN Strip(SubSeq(s, 1, Len(s) - 1))
    ELSE s

(***************************************************************************)
(* Constants of the program and the bounds of the model                    *)
(***************************************************************************)

\* RECOGNITION_TOLERANCE = 0.6, in tenths
RECOGNITION_TOLERANCE == 6

\* the sentinel label of an unmatched face
Unknown == <<"U", "n", "k", "n", "o", "w", "n">>

\* the header row of the ledger, without its line end
HeaderRow == <<"N", "a", "m", "e", ",", "T", "i", "m", "e", "s", "t", "a", "m", "p">>

\* calendar days the clock can reach
MaxDay == 2

\* application starts in one behaviour
MaxRuns == 2

\* frames the capture device delivers in one behaviour
MaxFrames == 2

\* frame ids count from 1; latest_frame = None is 0
NoFrame == 0

\* queue.Queue(maxsize=1)
QueueMaxSize == 1

(***************************************************************************)
(* The gallery directory: image files and what the vision library finds in *)
(* them (an embedding, "noface", or "corrupt" when loading raises)         *)
(***************************************************************************)

F_JD1 == <<"J", "_", "D", "_", "1", ".", "j", "p", "g">>
F_JD2 == <<"J", "_", "D", "_", "2", ".", "j", "p", "g">>
F_AB  == <<"A", ",", "b", ".", "P", "N", "G">>
F_K   == <<"K", ".", "j", "p", "e", "g">>
F_TXT == <<"n", ".", "t", "x", "t">>
F_UNK == <<"U", "n", "k", "n", "o", "w", "n", ".", "j", "p", "g">>

\* what face_recognition finds in an image file
Face(e) == [kind |-> "face", emb |-> e]
NoFace == [kind |-> "noface", emb |-> 0]

\* a directory is a function from file names to file contents
EmptyDir == [f \in {} |-> NoFace]

Directories ==
    { EmptyDir,
      (F_JD1 :> Face(0)) @@ (F_JD2 :> Face(12)),
      (F_AB :> Face(0)) @@ (F_K :> NoFace) @@ (F_TXT :> Face(0)),
      (F_UNK :> Face(12)) }

\* probe embeddings the camera can see
Probes == {0, 6, 7}

\* the faces of one frame: the embeddings face_encodings returns for it
FrameFaces == {<<>>} \cup {<<p>> : p \in Probes} \cup {<<0, 6>>}

\* os.listdir: every order of the directory's entries
Listings(dir) ==
    {l \in [1..Cardinality(DOMAIN dir) -> DOMAIN dir] :
        \A i, j \in DOMAIN l : i # j => l[i] # l[j]}

(***************************************************************************)
(* FaceDataManager.load_known_faces                                        *)
(***************************************************************************)

ImageExts == {<<".", "j", "p", "g">>, <<".", "j", "p", "e", "g">>, <<".", "p", "n", "g">>}

\* line 56: fname.lower().endswith(('.jpg', '.jpeg', '.png'))
IsImageFile(fname) == \E e \in ImageExts : EndsWith(Lower(fname), e)

\* lines 60-62: the "simplistic name cleanup"
CleanName(fname) ==
    LET name == Replace(SplitExtRoot(fname), "_", " ")
        parts == Split(name, "_")
    IN  IF Contains(name, "_") /\ IsDigit(parts[Len(parts)])
        THEN Join(SubSeq(parts, 1, Len(parts) - 1), "_")
        ELSE name

\* lines 66-77: does this file contribute an entry
HasFace(dir, fname) == dir[fname].kind = "face"

\* lines 47-80 for one listing order: the new (known_encodings, known_names)
RECURSIVE LoadFrom(_, _)
LoadFrom(dir, listing) ==
    IF Len(listing) = 0
    THEN [encodings |-> <<>>, names |-> <<>>]
    ELSE LET fname == listing[1]
             rest == LoadFrom(dir, Tail(listing))
         IN  IF IsImageFile(fname) /\ HasFace(dir, fname)
             THEN [encodings |-> <<dir[fname].emb>> \o rest.encodings,
                   names |-> <<CleanName(fname)>> \o rest.names]
             ELSE rest

(***************************************************************************)
(* FaceDataManager.load_today_log and mark_attendance                      *)
(***************************************************************************)

DigitChar(n) ==
    CASE n = 0 -> "0" [] n = 1 -> "1" [] n = 2 -> "2" [] n = 3 -> "3"
      [] n = 4 -> "4" [] n = 5 -> "5" [] n = 6 -> "6" [] n = 7 -> "7"
      [] n = 8 -> "8" [] n = 9 -> "9"

\* strftime("%Y-%m-%d") of a day of November 2026
DateStr(d) ==
    <<"2", "0", "2", "6", "-", "1", "1", "-", DigitChar(d \div 10), DigitChar(d % 10)>>

\* strftime("%Y-%m-%d %H:%M:%S"); the time of day is noon throughout
TimeStr(d) == DateStr(d) \o <<" ", "1", "2", ":", "0", "0", ":", "0", "0">>

\* the ledger file: absent, or its lines (without line ends)
NoFile == [exists |-> FALSE, lines |-> <<>>]

\* lines 84-101
LoadTodayLog(file, d) ==
    IF ~file.exists THEN {}
    ELSE IF Len(file.lines) = 0 THEN {}
    ELSE {Split(Strip(file.lines[i]), ",")[1] :
            i \in {k \in 2..Len(file.lines) :
                     LET parts == Split(Strip(file.lines[k]), ",")
                     IN  Len(parts) >= 2 /\ StartsWith(parts[2], DateStr(d))}}

\* line 111: the row written for a name
RowOf(name, d) == name \o <<",">> \o TimeStr(d)

\* outcomes of the file system for one open-and-write
IoOutcomes == {"ok", "open_fails", "write_fails"}

\* mark_attendance that always appends: a new file gets no header row
MarkAttendanceNoHeader(name, file, logged, d, io) ==
    IF name \notin logged
    THEN CASE io = "ok" ->
                [file |-> [exists |-> TRUE, lines |-> file.lines \o <<RowOf(name, d)>>],
                 logged |-> logged \cup {name},
                 ret |-> "true"]
           [] OTHER ->
                [file |-> file, logged |-> logged, ret |-> "raised"]
    ELSE [file |-> file, logged |-> logged, ret |-> "false"]

\* mark_attendance without line 112: the name is never added to the set
MarkAttendanceNoAdd(name, file, logged, d, io) ==
    IF name \notin logged
    THEN CASE io = "ok" ->
                [file |-> [exists |-> TRUE,
                           lines |-> (IF file.exists THEN file.lines ELSE <<HeaderRow>>)
                                       \o <<RowOf(name, d)>>],
                 logged |-> logged,
                 ret |-> "true"]
           [] OTHER ->
                [file |-> file, logged |-> logged, ret |-> "raised"]
    ELSE [file |-> file, logged |-> logged, ret |-> "false"]

\* mark_attendance with line 112 moved before the write: the name is in the
\* set although the write raised
MarkAttendanceAddFirst(name, file, logged, d, io) ==
    IF name \notin logged
    THEN CASE io = "ok" ->
                [file |-> [exists |-> TRUE,
                           lines |-> (IF file.exists THEN file.lines ELSE <<HeaderRow>>)
                                       \o <<RowOf(name, d)>>],
                 logged |-> logged \cup {name},
                 ret |-> "true"]
           [] io = "open_fails" ->
                [file |-> file, logged |-> logged \cup {name}, ret |-> "raised"]
           [] io = "write_fails" ->
                [file |-> [exists |-> TRUE, lines |-> file.lines],
                 logged |-> logged \cup {name}, ret |-> "raised"]
    ELSE [file |-> file, logged |-> logged, ret |-> "false"]

\* lines 105-114: the ledger, the set and the result of one call
\* (ret is "true", "false", or "raised" when the write raises)
MarkAttendance(name, file, logged, d, io) ==
    IF name \notin logged
    THEN CASE io = "ok" ->
                [file |-> [exists |-> TRUE,
                           lines |-> (IF file.exists THEN file.lines ELSE <<HeaderRow>>)
                                       \o <<RowOf(name, d)>>],
                 logged |-> logged \cup {name},
                 ret |-> "true"]
           [] io = "open_fails" ->
                [file |-> file, logged |-> logged, ret |-> "raised"]
           [] io = "write_fails" ->
                \* open(..., 'w') has created the file before the write fails
                [file |-> [exists |-> TRUE, lines |-> file.lines],
                 logged |-> logged, ret |-> "raised"]
    ELSE [file |-> file, logged |-> logged, ret |-> "false"]

(***************************************************************************)
(* The matching policy of CameraThread.run, lines 177-185                  *)
(***************************************************************************)

Abs(x) == IF x < 0 THEN -x ELSE x

\* face_recognition.face_distance(known, enc)
FaceDistance(known, enc) == [i \in 1..Len(known) |-> Abs(known[i] - enc)]

\* face_recognition.compare_faces(known, enc, tolerance): distance <= tolerance
CompareFaces(known, enc, tolerance) ==
    [i \in 1..Len(known) |-> FaceDistance(known, enc)[i] <= tolerance]

\* an argmin that returns the last index of the minimum
ArgMinLast(distances) ==
    CHOOSE i \in 1..Len(distances) :
        /\ \A j \in 1..Len(distances) : distances[i] <= distances[j]
        /\ \A j \in (i+1)..Len(distances) : distances[j] > distances[i]

\* np.argmin: the first index of the minimum
ArgMin(distances) ==
    CHOOSE i \in 1..Len(distances) :
        /\ \A j \in 1..Len(distances) : distances[i] <= distances[j]
        /\ \A j \in 1..(i-1) : distances[j] > distances[i]

(***************************************************************************)
(* State                                                                   *)
(***************************************************************************)

VARIABLES
    app,             \* "off": no process; "on": CTKAttendanceApp is running
    runs,            \* application starts so far
    day,             \* the calendar day of datetime.now()
    dir,             \* the KnownFaces directory
    scene,           \* the lists of faces the camera can see in a frame
    file,            \* Attendance.csv
    logged_people,   \* FaceDataManager.logged_people
    known_encodings, \* FaceDataManager.known_encodings
    known_names,     \* FaceDataManager.known_names
    pc,              \* where CameraThread.run is
    running,         \* CameraThread.running
    cap,             \* CameraThread.cap
    latest_frame,    \* CameraThread.latest_frame (a frame id)
    frames_read,     \* frames delivered by cap.read() so far; the next frame's id
    frame,           \* run's local frame: its id and the embeddings of its faces
    names,           \* run's local list of labels
    best_idx,        \* run's local best_idx
    ret,             \* what the last mark_attendance call of this iteration did
    fatal_reports,   \* "FATAL: No camera detected" lines printed in this run
    frame_queue,     \* CTKAttendanceApp.frame_queue
    shown,           \* the frame id last put on video_label
    prev_log_count,  \* CTKAttendanceApp._prev_log_count
    log_count_text,  \* the number shown after "TODAY LOGGED:"
    reg,             \* the RegistrationWindow: "none", "open" or "closed"
    name_entry,      \* the text of RegistrationWindow.name_entry
    captured_frames, \* RegistrationWindow.captured_frames
    capture_count,   \* RegistrationWindow.capture_count
    capture_btn,     \* the state of RegistrationWindow.capture_btn
    pending,         \* the names save_all_frames is scheduled for (line 268) or at
    ui_pc,           \* where the UI thread is inside save_all_frames
    temp_names,      \* load_known_faces' local temp_names between lines 79 and 80
    last_msg,        \* the CTkMessagebox the last handler of the wizard put up
    start_rows,      \* history: lines of the ledger when this run started
    marked,          \* history: names whose mark_attendance returned True in this run
    stop_puts        \* history: frames put on the queue since stop() was called

vars == <<app, runs, day, dir, scene, file, logged_people, known_encodings, known_names,
          pc, running, cap, latest_frame, frames_read, frame, names, best_idx, ret,
          fatal_reports, frame_queue, shown, prev_log_count, log_count_text,
          reg, name_entry, captured_frames, capture_count, capture_btn, pending,
          ui_pc, temp_names, last_msg, start_rows, marked, stop_puts>>

dataVars == <<file, logged_people, known_encodings, known_names>>
workerLocals == <<frame, names, best_idx, ret>>
uiVars == <<shown, prev_log_count, log_count_text>>
worldVars == <<app, runs, day, dir, scene>>
histVars == <<start_rows, marked, stop_puts>>
regVars == <<reg, name_entry, captured_frames, capture_count, capture_btn, pending,
             ui_pc, temp_names, last_msg>>

NoFrameRec == [id |-> NoFrame, encs |-> <<>>]

\* before the first start: nothing of the program exists yet
InitProgram ==
    /\ app = "off"
    /\ runs = 0
    /\ day = 1
    /\ file = NoFile
    /\ logged_people = {}
    /\ known_encodings = <<>>
    /\ known_names = <<>>
    /\ pc = "off"
    /\ running = FALSE
    /\ cap = "None"
    /\ latest_frame = NoFrame
    /\ frames_read = 0
    /\ frame = NoFrameRec
    /\ names = <<>>
    /\ best_idx = 0
    /\ ret = "none"
    /\ fatal_reports = 0
    /\ frame_queue = <<>>
    /\ shown = NoFrame
    /\ prev_log_count = 0
    /\ log_count_text = 0
    /\ reg = "none"
    /\ name_entry = <<>>
    /\ captured_frames = <<>>
    /\ capture_count = 0
    /\ capture_btn = "normal"
    /\ pending = <<>>
    /\ ui_pc = "idle"
    /\ temp_names = <<>>
    /\ last_msg = "none"
    /\ start_rows = 0
    /\ marked = {}
    /\ stop_puts = 0

Init ==
    /\ dir \in Directories
    /\ scene = FrameFaces
    /\ InitProgram

(***************************************************************************)
(* The application: start, exit, the clock                                 *)
(***************************************************************************)

\* CTKAttendanceApp.__init__, lines 289-300, with FaceDataManager.__init__ and
\* CameraThread.__init__
AppStart ==
    /\ app = "off"
    /\ runs < MaxRuns
    /\ \E listing \in Listings(dir) :
         LET g == LoadFrom(dir, listing)
         IN  /\ known_encodings' = g.encodings
             /\ known_names' = g.names
    /\ logged_people' = LoadTodayLog(file, day)
    /\ app' = "on"
    /\ runs' = runs + 1
    /\ pc' = "init"
    /\ running' = TRUE
    /\ cap' = "None"
    /\ latest_frame' = NoFrame
    /\ frame' = NoFrameRec
    /\ names' = <<>>
    /\ best_idx' = 0
    /\ ret' = "none"
    /\ fatal_reports' = 0
    /\ frame_queue' = <<>>
    /\ shown' = NoFrame
    /\ prev_log_count' = Cardinality(logged_people')
    /\ log_count_text' = Cardinality(logged_people')
    /\ start_rows' = Len(file.lines)
    /\ marked' = {}
    /\ stop_puts' = 0
    /\ UNCHANGED <<day, dir, scene, file, frames_read, regVars>>

\* the process ends (the window is destroyed, the daemon thread dies with it)
Exit ==
    /\ app = "on"
    /\ app' = "off"
    /\ logged_people' = {}
    /\ known_encodings' = <<>>
    /\ known_names' = <<>>
    /\ pc' = "off"
    /\ running' = FALSE
    /\ cap' = "None"
    /\ latest_frame' = NoFrame
    /\ frame' = NoFrameRec
    /\ names' = <<>>
    /\ best_idx' = 0
    /\ ret' = "none"
    /\ fatal_reports' = 0
    /\ frame_queue' = <<>>
    /\ shown' = NoFrame
    /\ prev_log_count' = 0
    /\ log_count_text' = 0
    /\ start_rows' = 0
    /\ marked' = {}
    /\ stop_puts' = 0
    /\ reg' = "none"
    /\ name_entry' = <<>>
    /\ captured_frames' = <<>>
    /\ capture_count' = 0
    /\ capture_btn' = "normal"
    /\ pending' = <<>>
    /\ ui_pc' = "idle"
    /\ temp_names' = <<>>
    /\ last_msg' = "none"
    /\ UNCHANGED <<runs, day, dir, scene, file, frames_read>>

\* midnight passes
NextDay ==
    /\ day < MaxDay
    /\ day' = day + 1
    /\ UNCHANGED <<app, runs, dir, scene, regVars, dataVars, pc, running, cap, latest_frame,
                   frames_read, workerLocals, fatal_reports, frame_queue, uiVars,
                   histVars>>

(***************************************************************************)
(* CameraThread                                                            *)
(***************************************************************************)

\* the indices init_camera tries, in order
CameraIndices == <<0, 1>>

\* lines 146-150: whether one of the tried indices opens
CameraOpens(opens) == \E i \in 1..Len(CameraIndices) : CameraIndices[i] \in opens

\* InitCamera with run ignoring what init_camera returns
InitCameraIgnoresFailure ==
    /\ app = "on"
    /\ pc = "init"
    /\ \E opens \in SUBSET {0, 1} :
         IF CameraOpens(opens)
         THEN /\ cap' = "opened"
              /\ pc' = "loop"
              /\ UNCHANGED <<running, fatal_reports>>
         ELSE /\ cap' = "unopened"
              /\ fatal_reports' = fatal_reports + 1
              /\ pc' = "loop"
              /\ UNCHANGED running
    /\ UNCHANGED <<worldVars, regVars, dataVars, latest_frame, frames_read, workerLocals,
                   frame_queue, uiVars, histVars>>

\* init_camera and lines 156-158 of run; opens is the set of device indices
\* that can be opened
InitCamera ==
    /\ app = "on"
    /\ pc = "init"
    /\ \E opens \in SUBSET {0, 1} :
         IF CameraOpens(opens)
         THEN /\ cap' = "opened"
              /\ pc' = "loop"
              /\ UNCHANGED <<running, fatal_reports>>
         ELSE /\ cap' = "unopened"
              /\ fatal_reports' = fatal_reports + 1
              /\ running' = FALSE
              /\ pc' = "stopped"
    /\ UNCHANGED <<worldVars, regVars, dataVars, latest_frame, frames_read, workerLocals,
                   frame_queue, uiVars, histVars>>

\* line 160 with self.running false, then lines 201-202
LoopExit ==
    /\ app = "on"
    /\ pc = "loop"
    /\ ~running
    /\ cap' = IF cap # "None" THEN "released" ELSE cap
    /\ pc' = "stopped"
    /\ UNCHANGED <<worldVars, regVars, dataVars, running, latest_frame, frames_read,
                   workerLocals, fatal_reports, frame_queue, uiVars, histVars>>

\* lines 160-164: cap.read() fails, sleep and retry
ReadFail ==
    /\ app = "on"
    /\ pc = "loop"
    /\ running
    /\ UNCHANGED vars

\* ReadFrame with a loop that does not test self.running
ReadFrameIgnoresStop ==
    /\ app = "on"
    /\ pc = "loop"
    /\ frames_read < MaxFrames
    /\ frames_read' = frames_read + 1
    /\ latest_frame' = frames_read + 1
    /\ \E encs \in scene : frame' = [id |-> frames_read + 1, encs |-> encs]
    /\ names' = <<>>
    /\ best_idx' = 0
    /\ ret' = "none"
    /\ pc' = "match"
    /\ UNCHANGED <<worldVars, regVars, dataVars, running, cap, fatal_reports, frame_queue,
                   uiVars, histVars>>

\* lines 160-173: cap.read() delivers a frame; the vision library finds its faces
ReadFrame ==
    /\ app = "on"
    /\ pc = "loop"
    /\ running
    /\ frames_read < MaxFrames
    /\ frames_read' = frames_read + 1
    /\ latest_frame' = frames_read + 1
    /\ \E encs \in scene : frame' = [id |-> frames_read + 1, encs |-> encs]
    /\ names' = <<>>
    /\ best_idx' = 0
    /\ ret' = "none"
    /\ pc' = "match"
    /\ UNCHANGED <<worldVars, regVars, dataVars, running, cap, fatal_reports, frame_queue,
                   uiVars, histVars>>

\* the embedding the loop of line 176 is at
CurrentEnc == frame.encs[Len(names) + 1]

\* lines 178-183: the index of the matched known face, 0 when there is none
BestMatch(known, enc) ==
    IF Len(known) > 0
    THEN LET matches == CompareFaces(known, enc, RECOGNITION_TOLERANCE)
             distances == FaceDistance(known, enc)
         IN  IF Len(distances) > 0 /\ matches[ArgMin(distances)]
             THEN ArgMin(distances)
             ELSE 0
    ELSE 0

\* MatchNone with mark_attendance called outside the test of line 183
MatchNoneMarks ==
    /\ app = "on"
    /\ pc = "match"
    /\ Len(names) < Len(frame.encs)
    /\ BestMatch(known_encodings, CurrentEnc) = 0
    /\ names' = Append(names, Unknown)
    /\ best_idx' = 0
    /\ LET r == MarkAttendance(Unknown, file, logged_people, day, "ok")
       IN  /\ file' = r.file
           /\ logged_people' = r.logged
           /\ ret' = r.ret
    /\ UNCHANGED <<worldVars, regVars, known_encodings, known_names, pc, running, cap,
                   latest_frame, frames_read, frame, fatal_reports, frame_queue,
                   uiVars, histVars>>

\* lines 176-183 and 186 for one embedding: no match, the label is "Unknown"
MatchNone ==
    /\ app = "on"
    /\ pc = "match"
    /\ Len(names) < Len(frame.encs)
    /\ BestMatch(known_encodings, CurrentEnc) = 0
    /\ names' = Append(names, Unknown)
    /\ best_idx' = 0
    /\ ret' = "none"
    /\ UNCHANGED <<worldVars, regVars, dataVars, pc, running, cap, latest_frame, frames_read,
                   frame, fatal_reports, frame_queue, uiVars, histVars>>

\* lines 176-183 for one embedding: the nearest known face matches
MatchFound ==
    /\ app = "on"
    /\ pc = "match"
    /\ Len(names) < Len(frame.encs)
    /\ BestMatch(known_encodings, CurrentEnc) # 0
    /\ best_idx' = BestMatch(known_encodings, CurrentEnc)
    /\ ret' = "none"
    /\ pc' = "name"
    /\ UNCHANGED <<worldVars, regVars, dataVars, running, cap, latest_frame, frames_read,
                   frame, names, fatal_reports, frame_queue, uiVars, histVars>>

\* lines 184-186: the name of the match, and mark_attendance for it
NameAndMark ==
    /\ app = "on"
    /\ pc = "name"
    /\ IF best_idx \in DOMAIN known_names
       THEN \E io \in IoOutcomes :
              LET name == known_names[best_idx]
                  r == MarkAttendance(name, file, logged_people, day, io)
              IN  /\ file' = r.file
                  /\ logged_people' = r.logged
                  /\ ret' = r.ret
                  /\ marked' = IF r.ret = "true" THEN marked \cup {name} ELSE marked
                  /\ IF r.ret = "raised"
                     THEN \* the exception leaves run(): the thread ends
                          /\ pc' = "crashed"
                          /\ UNCHANGED names
                     ELSE /\ pc' = "match"
                          /\ names' = Append(names, name)
       ELSE \* line 184 raises IndexError, which leaves run() as well
            /\ pc' = "crashed"
            /\ UNCHANGED <<file, logged_people, ret, marked, names>>
    /\ UNCHANGED <<worldVars, regVars, known_encodings, known_names, running, cap,
                   latest_frame, frames_read, frame, best_idx, fatal_reports,
                   frame_queue, uiVars, start_rows, stop_puts>>

\* CheckFull without the test of line 196: put is always called
CheckFullAlwaysPut ==
    /\ app = "on"
    /\ pc = "match"
    /\ Len(names) = Len(frame.encs)
    /\ pc' = "put"
    /\ UNCHANGED <<worldVars, regVars, dataVars, running, cap, latest_frame, frames_read,
                   workerLocals, fatal_reports, frame_queue, uiVars, histVars>>

\* lines 189-196: all faces labelled, boxes drawn, frame_queue.full() tested
CheckFull ==
    /\ app = "on"
    /\ pc = "match"
    /\ Len(names) = Len(frame.encs)
    /\ pc' = IF Len(frame_queue) >= QueueMaxSize THEN "loop" ELSE "put"
    /\ UNCHANGED <<worldVars, regVars, dataVars, running, cap, latest_frame, frames_read,
                   workerLocals, fatal_reports, frame_queue, uiVars, histVars>>

\* line 197: frame_queue.put, which waits while the queue is full
Put ==
    /\ app = "on"
    /\ pc = "put"
    /\ Len(frame_queue) < QueueMaxSize
    /\ frame_queue' = Append(frame_queue, [id |-> frame.id, labels |-> names])
    /\ stop_puts' = IF running THEN stop_puts ELSE stop_puts + 1
    /\ pc' = "loop"
    /\ UNCHANGED <<worldVars, regVars, dataVars, running, cap, latest_frame, frames_read,
                   workerLocals, fatal_reports, uiVars, start_rows, marked>>

(***************************************************************************)
(* The UI thread                                                           *)
(***************************************************************************)

\* _update_frame, lines 345-363, when get_nowait raises queue.Empty
UpdateFrameEmpty ==
    /\ app = "on"
    /\ ui_pc = "idle"
    /\ frame_queue = <<>>
    /\ UNCHANGED vars

\* _update_frame, lines 345-363, when a frame is waiting
UpdateFrame ==
    /\ app = "on"
    /\ ui_pc = "idle"
    /\ frame_queue # <<>>
    /\ frame_queue' = Tail(frame_queue)
    /\ shown' = Head(frame_queue).id
    /\ LET cur_count == Cardinality(logged_people)
       IN  IF prev_log_count # cur_count
           THEN /\ prev_log_count' = cur_count
                /\ log_count_text' = cur_count
           ELSE UNCHANGED <<prev_log_count, log_count_text>>
    /\ UNCHANGED <<worldVars, regVars, dataVars, pc, running, cap, latest_frame, frames_read,
                   workerLocals, fatal_reports, histVars>>

\* on_closing, lines 365-368: camera_thread.stop()
OnClosing ==
    /\ app = "on"
    /\ ui_pc = "idle"
    /\ running' = FALSE
    /\ UNCHANGED <<worldVars, regVars, dataVars, pc, cap, latest_frame, frames_read,
                   workerLocals, fatal_reports, frame_queue, uiVars, histVars>>

Next ==
    \/ AppStart
    \/ Exit
    \/ NextDay
    \/ InitCamera
    \/ LoopExit
    \/ ReadFail
    \/ ReadFrame
    \/ MatchNone
    \/ MatchFound
    \/ NameAndMark
    \/ CheckFull
    \/ Put
    \/ UpdateFrameEmpty
    \/ UpdateFrame
    \/ OnClosing

Spec == Init /\ [][Next]_vars

(***************************************************************************)
(* RegistrationWindow and FaceDataManager.save_new_face                    *)
(***************************************************************************)

TOTAL_PHOTOS_REQUIRED == 3

\* captures the wizard takes beyond TOTAL_PHOTOS_REQUIRED before the model stops
MaxRetries == 1

Letters ==
    {"a", "b", "c", "d", "e", "f", "g", "h", "i", "j", "k", "l", "m", "n", "o",
     "p", "q", "r", "s", "t", "u", "v", "w", "x", "y", "z",
     "A", "B", "C", "D", "E", "F", "G", "H", "I", "J", "K", "L", "M", "N", "O",
     "P", "Q", "R", "S", "T", "U", "V", "W", "X", "Y", "Z"}

\* str.isalpha() of one character
IsAlpha(c) == c \in Letters

\* what the user can type into name_entry
EntryTexts ==
    { <<>>,
      <<"a", " ", "b">>,
      <<"1", "a">>,
      <<"B">>,
      <<"B", ",", "c">> }

\* line 248: the test that sends process_capture to its "Input Error" return
NameRejected(name) ==
    \/ name = <<>>
    \/ Contains(name, " ")
    \/ ~IsAlpha(name[1])

\* line 120: f"{name}_{i+1}.jpg" for the i-th frame, counted from 1
FrameFileName(name, i) == name \o <<"_", DigitChar(i)>> \o <<".", "j", "p", "g">>

\* a snapshot of a frame, as what face_recognition finds in the image written
\* from it (line 69 takes the first face)
ImageOf(frm) == IF Len(frm.encs) > 0 THEN Face(frm.encs[1]) ELSE NoFace

\* lines 119-123 of save_new_face for the first k frames: the directory after
\* cv2.imwrite has written them
WriteFrames(d, name, frames, k) ==
    LET new == {FrameFileName(name, i) : i \in 1..k}
        idx(f) == CHOOSE i \in 1..k : FrameFileName(name, i) = f
    IN  [f \in DOMAIN d \cup new |->
            IF f \in new THEN frames[idx(f)] ELSE d[f]]

\* the characters of file names, in the order of their code points
CharOrder ==
    <<" ", ",", ".", "0", "1", "2", "3", "4", "5", "6", "7", "8", "9",
      "A", "B", "C", "D", "E", "F", "G", "H", "I", "J", "K", "L", "M", "N", "O",
      "P", "Q", "R", "S", "T", "U", "V", "W", "X", "Y", "Z", "_",
      "a", "b", "c", "d", "e", "f", "g", "h", "i", "j", "k", "l", "m", "n", "o",
      "p", "q", "r", "s", "t", "u", "v", "w", "x", "y", "z">>

Ord(c) == CHOOSE i \in 1..Len(CharOrder) : CharOrder[i] = c

\* s <= t for Python strings
RECURSIVE StrLeq(_, _)
StrLeq(s, t) ==
    IF Len(s) = 0 THEN TRUE
    ELSE IF Len(t) = 0 THEN FALSE
    ELSE IF s[1] = t[1] THEN StrLeq(Tail(s), Tail(t))
    ELSE Ord(s[1]) < Ord(t[1])

\* the file names of a set in ascending order
RECURSIVE Ascending(_)
Ascending(files) ==
    IF files = {} THEN <<>>
    ELSE LET least == CHOOSE f \in files : \A g \in files : StrLeq(f, g)
         IN  <<least>> \o Ascending(files \ {least})

\* os.listdir (line 55) while the wizard is at work.  Its order is arbitrary;
\* of the orders it can return the loads of a registration are explored for
\* one, the ascending order.
RegListings(d) == {Ascending(DOMAIN d)}

\* open_registration_window, lines 309-310, and RegistrationWindow.__init__
OpenRegistration ==
    /\ app = "on"
    /\ ui_pc = "idle"
    /\ reg = "none"
    /\ reg' = "open"
    /\ name_entry' = <<>>
    /\ captured_frames' = <<>>
    /\ capture_count' = 0
    /\ capture_btn' = "normal"
    /\ UNCHANGED <<worldVars, dataVars, pc, running, cap, latest_frame, frames_read,
                   workerLocals, fatal_reports, frame_queue, uiVars, histVars,
                   pending, ui_pc, temp_names, last_msg>>

\* self.destroy() of the RegistrationWindow: its widgets and message boxes go
\* with it; its fields live on while a scheduled save_all_frames holds them
Destroyed(held) ==
    /\ reg' = "closed"
    /\ last_msg' = "none"
    /\ name_entry' = <<>>
    /\ capture_btn' = "normal"
    /\ IF held
       THEN UNCHANGED <<captured_frames, capture_count>>
       ELSE /\ captured_frames' = <<>>
            /\ capture_count' = 0

\* the Close button of line 243: command=self.destroy
CloseRegistration ==
    /\ app = "on"
    /\ ui_pc = "idle"
    /\ reg = "open"
    /\ Destroyed(pending # <<>>)
    /\ UNCHANGED <<worldVars, dataVars, pc, running, cap, latest_frame, frames_read,
                   workerLocals, fatal_reports, frame_queue, uiVars, histVars,
                   pending, ui_pc, temp_names>>

\* process_capture, lines 245-268: a click on the enabled capture button with
\* text in name_entry; take_snapshot (lines 207-210) copies the frame
\* latest_frame holds
ProcessCapture ==
    /\ app = "on"
    /\ ui_pc = "idle"
    /\ reg = "open"
    /\ capture_btn = "normal"
    /\ \E text \in EntryTexts : name_entry' = text
    /\ LET name == Strip(name_entry')
       IN  IF NameRejected(name)
           THEN /\ last_msg' = "Input Error"
                /\ UNCHANGED <<captured_frames, capture_count, capture_btn, pending>>
           ELSE IF latest_frame = NoFrame
           THEN /\ last_msg' = "Camera Error"
                /\ UNCHANGED <<captured_frames, capture_count, capture_btn, pending>>
           ELSE /\ Len(captured_frames) < TOTAL_PHOTOS_REQUIRED + MaxRetries
                /\ captured_frames' = Append(captured_frames, ImageOf(frame))
                /\ capture_count' = capture_count + 1
                /\ IF capture_count + 1 < TOTAL_PHOTOS_REQUIRED
                   THEN /\ capture_btn' = "normal"
                        /\ UNCHANGED pending
                   ELSE /\ capture_btn' = "disabled"
                        /\ pending' = Append(pending, name)
                /\ last_msg' = "none"
    /\ UNCHANGED <<worldVars, dataVars, pc, running, cap, latest_frame, frames_read,
                   workerLocals, fatal_reports, frame_queue, uiVars, histVars,
                   reg, ui_pc, temp_names>>

\* SaveAllFrames with an except branch that starts the wizard over
SaveAllFramesStartsOver ==
    /\ app = "on"
    /\ ui_pc = "idle"
    /\ pending # <<>>
    /\ \E saved \in BOOLEAN :
         IF saved
         THEN LET d == WriteFrames(dir, Head(pending), captured_frames,
                                   Len(captured_frames))
              IN  /\ dir' = d
                  /\ \E listing \in RegListings(d) :
                       LET g == LoadFrom(d, listing)
                       IN  /\ known_encodings' = g.encodings
                           /\ temp_names' = g.names
                  /\ ui_pc' = "line 80"
                  /\ UNCHANGED <<capture_btn, last_msg, captured_frames,
                                 capture_count, pending>>
         ELSE /\ dir' = dir
              /\ pending' = Tail(pending)
              /\ IF reg = "open"
                 THEN /\ last_msg' = "Error"
                      /\ capture_btn' = "normal"
                      /\ captured_frames' = <<>>
                      /\ capture_count' = 0
                 ELSE /\ captured_frames' = <<>>
                      /\ capture_count' = 0
                      /\ UNCHANGED <<capture_btn, last_msg>>
              /\ UNCHANGED <<known_encodings, temp_names, ui_pc>>
    /\ UNCHANGED <<app, runs, day, scene, file, logged_people, known_names, pc,
                   running, cap, latest_frame, frames_read, workerLocals, fatal_reports,
                   frame_queue, uiVars, histVars, reg, name_entry>>

\* save_all_frames, lines 270-278, up to line 79 of the load_known_faces that
\* save_new_face calls; or, when save_new_face raises on its first frame, the
\* except branch.  On a destroyed window CTkMessagebox raises in its turn.
SaveAllFrames ==
    /\ app = "on"
    /\ ui_pc = "idle"
    /\ pending # <<>>
    /\ \E saved \in BOOLEAN :
         IF saved
         THEN LET d == WriteFrames(dir, Head(pending), captured_frames,
                                   Len(captured_frames))
              IN  /\ dir' = d
                  /\ \E listing \in RegListings(d) :
                       LET g == LoadFrom(d, listing)
                       IN  /\ known_encodings' = g.encodings
                           /\ temp_names' = g.names
                  /\ ui_pc' = "line 80"
                  /\ UNCHANGED <<capture_btn, last_msg, captured_frames,
                                 capture_count, pending>>
         ELSE /\ dir' = dir
              /\ pending' = Tail(pending)
              /\ IF reg = "open"
                 THEN /\ last_msg' = "Error"
                      /\ capture_btn' = "normal"
                      /\ UNCHANGED <<captured_frames, capture_count>>
                 ELSE /\ captured_frames' = <<>>
                      /\ capture_count' = 0
                      /\ UNCHANGED <<capture_btn, last_msg>>
              /\ UNCHANGED <<known_encodings, temp_names, ui_pc>>
    /\ UNCHANGED <<app, runs, day, scene, file, logged_people, known_names, pc,
                   running, cap, latest_frame, frames_read, workerLocals, fatal_reports,
                   frame_queue, uiVars, histVars, reg, name_entry>>

\* line 80 of the load_known_faces called by save_new_face (line 127)
LoadKnownNames ==
    /\ app = "on"
    /\ ui_pc = "line 80"
    /\ known_names' = temp_names
    /\ ui_pc' = "line 273"
    /\ UNCHANGED <<worldVars, file, logged_people, known_encodings, pc, running,
                   cap, latest_frame, frames_read, workerLocals, fatal_reports,
                   frame_queue, uiVars, histVars, reg, name_entry, captured_frames,
                   capture_count, capture_btn, pending, temp_names, last_msg>>

\* reload_known_faces, lines 302-307, up to line 79 of its load_known_faces
ReloadKnownFaces ==
    /\ app = "on"
    /\ ui_pc = "line 273"
    /\ \E listing \in RegListings(dir) :
         LET g == LoadFrom(dir, listing)
         IN  /\ known_encodings' = g.encodings
             /\ temp_names' = g.names
    /\ ui_pc' = "reload line 80"
    /\ UNCHANGED <<worldVars, file, logged_people, known_names, pc, running,
                   cap, latest_frame, frames_read, workerLocals, fatal_reports,
                   frame_queue, uiVars, histVars, reg, name_entry, captured_frames,
                   capture_count, capture_btn, pending, last_msg>>

\* line 80 of that load_known_faces, then lines 274-275 of save_all_frames: the
\* "Success!" box and self.destroy()
SaveAllFramesEnd ==
    /\ app = "on"
    /\ ui_pc = "reload line 80"
    /\ known_names' = temp_names
    /\ temp_names' = <<>>
    /\ pending' = Tail(pending)
    /\ ui_pc' = "idle"
    /\ IF reg = "open"
       THEN Destroyed(FALSE)
       ELSE /\ captured_frames' = <<>>
            /\ capture_count' = 0
            /\ UNCHANGED <<reg, last_msg, name_entry, capture_btn>>
    /\ UNCHANGED <<worldVars, file, logged_people, known_encodings, pc, running,
                   cap, latest_frame, frames_read, workerLocals, fatal_reports,
                   frame_queue, uiVars, histVars>>

\* the frames of the registration runs: nobody, or one face
RegScene == {<<>>, <<0>>}

\* one run of the application on one day, with the registration wizard; the
\* gallery directory starts empty
InitReg ==
    /\ dir = EmptyDir
    /\ scene = RegScene
    /\ InitProgram

NextReg ==
    \/ AppStart
    \/ InitCamera
    \/ LoopExit
    \/ ReadFail
    \/ ReadFrame
    \/ MatchNone
    \/ MatchFound
    \/ NameAndMark
    \/ CheckFull
    \/ Put
    \/ UpdateFrameEmpty
    \/ UpdateFrame
    \/ OnClosing
    \/ OpenRegistration
    \/ CloseRegistration
    \/ ProcessCapture
    \/ SaveAllFrames
    \/ LoadKnownNames
    \/ ReloadKnownFaces
    \/ SaveAllFramesEnd

SpecReg == InitReg /\ [][NextReg]_vars

(***************************************************************************)
(* Vocabulary of the properties                                            *)
(***************************************************************************)

\* the image files of a directory in which a face is found
FaceFiles(d) == {f \in DOMAIN d : IsImageFile(f) /\ HasFace(d, f)}

\* the names the gallery of a directory can hold
GalleryNames(d) == {CleanName(f) : f \in FaceFiles(d)}

Days == 1..MaxDay

\* the lines of the ledger that are the row of a name on a day
RowsOf(name, d) == {i \in 1..Len(file.lines) : file.lines[i] = RowOf(name, d)}

\* the lines of the ledger appended in this run that are a row of a name
AppendedRowsOf(name) ==
    {i \in (start_rows + 1)..Len(file.lines) :
        \E d \in Days : file.lines[i] = RowOf(name, d)}

\* the lines of the ledger appended in this run, a header apart
AppendedRows ==
    {i \in (start_rows + 1)..Len(file.lines) : file.lines[i] # HeaderRow}

\* a step of the worker that returns from, or raises in, mark_attendance
MarkStep == pc = "name" /\ pc' \in {"match", "crashed"}

\* a step of the worker that labels one face
LabelStep == pc \in {"match", "name"} /\ pc' = "match" /\ Len(names') = Len(names) + 1

\* the end of the publish step of one iteration (lines 196-197)
PublishStep == pc \in {"match", "put"} /\ pc' = "loop"

\* the UI obtains a frame from the queue
ConsumeStep == app = "on" /\ app' = "on" /\ Len(frame_queue') < Len(frame_queue)

\* the name mark_attendance is called with at pc = "name"
MatchedName == known_names[best_idx]

(***************************************************************************)
(* C1: mark_attendance is idempotent within one run.  A call that returns  *)
(* returns True exactly when the name was not yet in logged_people; a call *)
(* for a name already in the set leaves the ledger alone and returns       *)
(* False; and the rows the run has appended to the ledger are exactly one  *)
(* row for each distinct name a call returned True for.                    *)
(***************************************************************************)
C1_MarkIdempotent ==
    /\ [][MarkStep =>
            /\ (ret' # "raised") =>
                  ((ret' = "true") <=> (MatchedName \notin logged_people))
            /\ (MatchedName \in logged_people) =>
                  /\ UNCHANGED <<file, logged_people>>
                  /\ ret' = "false"]_vars
    /\ [](app = "on" =>
            /\ \A n \in marked \cup GalleryNames(dir) :
                  Cardinality(AppendedRowsOf(n)) = (IF n \in marked THEN 1 ELSE 0)
            /\ Cardinality(AppendedRows) = Cardinality(marked))

\* the same name was marked twice on one day of one run: the second call
\* returned False and the run has appended one row for it
C1_Witness ==
    /\ app = "on"
    /\ ret = "false"
    /\ names # <<>>
    /\ names[Len(names)] \in marked
    /\ \E i \in AppendedRowsOf(names[Len(names)]) :
          file.lines[i] = RowOf(names[Len(names)], day)
    /\ Cardinality(AppendedRowsOf(names[Len(names)])) = 1

(***************************************************************************)
(* C2: over application starts, matches, day changes and restarts the      *)
(* ledger holds at most one row per (name, calendar day), and the          *)
(* logged-today set built by load_today_log at startup holds exactly the   *)
(* names that have a row dated today.                                      *)
(***************************************************************************)
C2_OneRowPerNameDay ==
    /\ [](\A n \in GalleryNames(dir) : \A d \in Days : Cardinality(RowsOf(n, d)) <= 1)
    /\ [][(app = "off" /\ app' = "on") =>
            logged_people' = {n \in GalleryNames(dir) : RowsOf(n, day) # {}}]_vars

(***************************************************************************)
(* C3: a record is created on the first successful match of a day: after   *)
(* every mark_attendance call the worker makes for a matched name and that *)
(* returns, the ledger holds a row for that name dated the current day,    *)
(* also on a day that began while the application kept running.            *)
(***************************************************************************)
C3_RowOnFirstMatchOfDay ==
    [][(MarkStep /\ ret' # "raised") =>
          \E i \in 1..Len(file'.lines) : file'.lines[i] = RowOf(MatchedName, day)]_vars

(***************************************************************************)
(* C4: the frame channel never blocks the producer.  Whenever the worker   *)
(* is at frame_queue.put the queue has room, so the put completes without  *)
(* waiting whatever the consumer does; the test of line 196 can always be  *)
(* taken; and the queue never holds more than one frame.                   *)
(***************************************************************************)
C4_ProducerNeverBlocks ==
    /\ Len(frame_queue) <= QueueMaxSize
    /\ (app = "on" /\ pc = "put") => (Len(frame_queue) < QueueMaxSize /\ ENABLED Put)
    /\ (app = "on" /\ pc = "match" /\ Len(names) = Len(frame.encs)) => ENABLED CheckFull

\* the consumer has never drained: the first frame is still queued, and the
\* worker has finished the iteration of a later frame without waiting
C4_Witness ==
    /\ app = "on"
    /\ pc = "loop"
    /\ shown = NoFrame
    /\ Len(frame_queue) = 1
    /\ frame.id > frame_queue[1].id

(***************************************************************************)
(* C5: latest-frame-wins.  At the end of the publish step of every loop    *)
(* iteration the queue holds the frame of that iteration, and the frame    *)
(* the consumer obtains in _update_frame is the most recently produced     *)
(* annotated frame.                                                        *)
(***************************************************************************)
C5_LatestFrameWins ==
    /\ [][PublishStep =>
            (frame_queue' # <<>> /\ frame_queue'[Len(frame_queue')].id = frame.id)]_vars
    /\ [][(ConsumeStep /\ pc = "loop") => shown' = frame.id]_vars

(***************************************************************************)
(* C6: when no tried camera index opens, the worker goes from Initializing *)
(* straight to Stopped: it never reads or publishes a frame, never sets    *)
(* latest_frame, never calls mark_attendance, and the no-camera error is   *)
(* reported exactly once.                                                  *)
(***************************************************************************)
C6_NoCameraStopsWorker ==
    (app = "on" /\ cap = "unopened") =>
        /\ pc = "stopped"
        /\ ~running
        /\ fatal_reports = 1
        /\ latest_frame = NoFrame
        /\ frame = NoFrameRec
        /\ frame_queue = <<>>
        /\ shown = NoFrame
        /\ names = <<>>
        /\ ret = "none"
        /\ marked = {}
        /\ Len(file.lines) = start_rows

\* the worker has stopped after every index failed to open
C6_Witness ==
    /\ app = "on"
    /\ cap = "unopened"
    /\ pc = "stopped"
    /\ fatal_reports = 1

(***************************************************************************)
(* C7: in a gallery directory whose image files share a base name and      *)
(* differ only by a trailing numeric suffix, load_known_faces gives every  *)
(* file the same display name (the base name with "_" replaced by spaces,  *)
(* the numeric suffix dropped) and stores one embedding per file in which  *)
(* a face is found.                                                        *)
(***************************************************************************)

\* the file name without extension, cut into its "_"-separated parts
NameParts(fname) == Split(SplitExtRoot(fname), "_")

\* the file name ends in "_<digits>"
HasNumericSuffix(fname) ==
    Len(NameParts(fname)) > 1 /\ IsDigit(NameParts(fname)[Len(NameParts(fname))])

\* the base name: the parts before the numeric suffix
BaseParts(fname) ==
    IF HasNumericSuffix(fname)
    THEN SubSeq(NameParts(fname), 1, Len(NameParts(fname)) - 1)
    ELSE NameParts(fname)

\* the display name the specification gives a file
DisplayName(fname) == Join(BaseParts(fname), " ")

\* all image files of the directory are numbered photos of one base name
IsSuffixGroup(d) ==
    /\ Cardinality(FaceFiles(d)) > 1
    /\ \A f \in FaceFiles(d) : HasNumericSuffix(f)
    /\ \A f, g \in FaceFiles(d) : BaseParts(f) = BaseParts(g)

\* C7: a directory of numbered photos of one base name loads as one display
\* name, the base name with spaces, with one entry per file with a face
C7_SuffixGroupOneName ==
    (app = "on" /\ IsSuffixGroup(dir)) =>
        /\ Len(known_names) = Cardinality(FaceFiles(dir))
        /\ Len(known_encodings) = Cardinality(FaceFiles(dir))
        /\ \A i \in 1..Len(known_names) :
              \A f \in FaceFiles(dir) : known_names[i] = DisplayName(f)

(***************************************************************************)
(* C8: the matching policy.  The label of a probe embedding is a function  *)
(* of the gallery and the probe: the name of the first known embedding of  *)
(* minimum distance when that distance is within the tolerance, "Unknown"  *)
(* otherwise; and mark_attendance is called exactly for the matches.       *)
(* C8_MatchingPolicyStrict is the policy with "below the tolerance" and    *)
(* "called exactly for the labels other than Unknown".                     *)
(***************************************************************************)

\* the least distance from the probe to a known embedding
MinDistance(known, enc) ==
    CHOOSE m \in {Abs(known[i] - enc) : i \in 1..Len(known)} :
        \A j \in 1..Len(known) : m <= Abs(known[j] - enc)

\* the first known embedding at the least distance
FirstNearest(known, enc) ==
    CHOOSE i \in 1..Len(known) :
        /\ Abs(known[i] - enc) = MinDistance(known, enc)
        /\ \A j \in 1..(i-1) : Abs(known[j] - enc) # MinDistance(known, enc)

\* a match exists: the nearest known embedding is at most the tolerance away
MatchExists(known, enc) ==
    Len(known) > 0 /\ MinDistance(known, enc) <= RECOGNITION_TOLERANCE

\* a match exists, with "below the tolerance"
MatchExistsStrict(known, enc) ==
    Len(known) > 0 /\ MinDistance(known, enc) < RECOGNITION_TOLERANCE

\* C8, with "at or below the tolerance": every label is the name of the first
\* nearest known face when a match exists and "Unknown" otherwise, and
\* mark_attendance is called exactly when a match exists
C8_MatchingPolicy ==
    /\ [][LabelStep =>
            /\ names'[Len(names')] =
                  (IF MatchExists(known_encodings, CurrentEnc)
                   THEN known_names[FirstNearest(known_encodings, CurrentEnc)]
                   ELSE Unknown)
            /\ (ret' # "none") <=> MatchExists(known_encodings, CurrentEnc)]_vars
    /\ [][MarkStep =>
            /\ MatchExists(known_encodings, CurrentEnc)
            /\ MatchedName = known_names[FirstNearest(known_encodings, CurrentEnc)]]_vars

\* C8 as stated: a match needs a distance below the tolerance, and
\* mark_attendance is called exactly for the labels other than "Unknown"
C8_MatchingPolicyStrict ==
    [][LabelStep =>
          /\ names'[Len(names')] =
                (IF MatchExistsStrict(known_encodings, CurrentEnc)
                 THEN known_names[FirstNearest(known_encodings, CurrentEnc)]
                 ELSE Unknown)
          /\ (ret' # "none") <=> (names'[Len(names')] # Unknown)]_vars

\* a probe at equal distance from two known faces, that distance being the
\* tolerance, has been labelled with the name of the first of them, and
\* mark_attendance has been called for it
C8_Witness ==
    /\ app = "on"
    /\ Len(known_encodings) = 2
    /\ names # <<>>
    /\ Abs(known_encodings[1] - frame.encs[Len(names)]) = RECOGNITION_TOLERANCE
    /\ Abs(known_encodings[2] - frame.encs[Len(names)]) = RECOGNITION_TOLERANCE
    /\ known_names[1] # known_names[2]
    /\ names[Len(names)] = known_names[1]
    /\ ret = "true"

(***************************************************************************)
(* C9: while the in-memory gallery is empty every face the worker labels   *)
(* is labelled "Unknown", mark_attendance is not called, and the ledger    *)
(* and the logged-today set stay as they are.                              *)
(***************************************************************************)
C9_EmptyGalleryNeverMarks ==
    [][(app = "on" /\ app' = "on" /\ known_encodings = <<>>) =>
          /\ UNCHANGED <<file, logged_people>>
          /\ ret' = "none"
          /\ ~MarkStep
          /\ LabelStep => names'[Len(names')] = Unknown]_vars

\* with an empty gallery a face has been seen and labelled "Unknown"
C9_Witness ==
    /\ app = "on"
    /\ known_encodings = <<>>
    /\ known_names = <<>>
    /\ names # <<>>
    /\ names[Len(names)] = Unknown
    /\ file = NoFile
    /\ logged_people = {}

(***************************************************************************)
(* C10: with the ledger file absent, load_today_log yields an empty        *)
(* logged-today set, and the first mark_attendance(name) that returns      *)
(* creates the file holding exactly the header row "Name,Timestamp" and    *)
(* one row for that name, adds the name to the set and returns True.       *)
(***************************************************************************)
C10_AbsentLedger ==
    /\ [][(app = "off" /\ app' = "on" /\ ~file.exists) => logged_people' = {}]_vars
    /\ [][(MarkStep /\ ~file.exists /\ ret' # "raised") =>
            /\ ret' = "true"
            /\ file' = [exists |-> TRUE,
                        lines |-> <<HeaderRow, RowOf(MatchedName, day)>>]
            /\ logged_people' = {MatchedName}]_vars

\* the first call of a run that found no ledger has just returned True
C10_Witness ==
    /\ app = "on"
    /\ start_rows = 0
    /\ ret = "true"
    /\ names # <<>>
    /\ file = [exists |-> TRUE, lines |-> <<HeaderRow, RowOf(names[Len(names)], day)>>]
    /\ logged_people = {names[Len(names)]}

(***************************************************************************)
(* Vocabulary of the registration properties                               *)
(***************************************************************************)

\* a step of process_capture that accepted the capture: a snapshot was appended
CaptureAccepted == Len(captured_frames') = Len(captured_frames) + 1

\* a step of process_capture that changed the text of the entry
EntryStep == reg' = "open" /\ name_entry' # name_entry

\* a step of process_capture that put up the "Input Error" box
CaptureRejected ==
    /\ last_msg' = "Input Error"
    /\ <<last_msg, name_entry>>' # <<last_msg, name_entry>>

\* empty, with whitespace in it, or not starting with a letter
BadName(name) ==
    \/ name = <<>>
    \/ \E i \in 1..Len(name) : name[i] \in Whitespace
    \/ ~IsAlpha(name[1])

\* made of letters and the enrollment separator
LettersAndSeparator(name) ==
    \A i \in 1..Len(name) : IsAlpha(name[i]) \/ name[i] = "_"

(***************************************************************************)
(* C11: registration name validation.  process_capture rejects every name  *)
(* that is empty, contains whitespace or does not start with a letter; a   *)
(* rejection leaves captured_frames, capture_count and the enabled capture *)
(* button as they were; and a capture is accepted only for a name made of  *)
(* letters and the separator "_".                                          *)
(***************************************************************************)
C11_NameValidation ==
    /\ [][(EntryStep /\ BadName(Strip(name_entry'))) => CaptureRejected]_vars
    /\ [][CaptureRejected =>
            /\ UNCHANGED <<captured_frames, capture_count, capture_btn, pending>>
            /\ capture_btn' = "normal"]_vars
    /\ [][CaptureAccepted =>
            /\ ~BadName(Strip(name_entry'))
            /\ LettersAndSeparator(Strip(name_entry'))]_vars

\* a step in which the scheduled save_all_frames runs and calls save_new_face
SaveCall == ui_pc = "idle" /\ pending # <<>> /\ <<ui_pc, pending>>' # <<ui_pc, pending>>

(***************************************************************************)
(* C12: the wizard collects exactly TOTAL_PHOTOS_REQUIRED snapshots.  Over *)
(* capture clicks, failed snapshots, save failures and retries, every call *)
(* of save_new_face receives exactly TOTAL_PHOTOS_REQUIRED frames, and     *)
(* capture_count always equals len(captured_frames) and never exceeds      *)
(* TOTAL_PHOTOS_REQUIRED.                                                  *)
(***************************************************************************)
C12_ExactlyRequiredFrames ==
    /\ [](capture_count = Len(captured_frames))
    /\ [](capture_count <= TOTAL_PHOTOS_REQUIRED)
    /\ [][SaveCall => Len(captured_frames) = TOTAL_PHOTOS_REQUIRED]_vars

(***************************************************************************)
(* C13: load_known_faces replaces the gallery atomically with respect to   *)
(* the camera thread.  Whenever the worker has chosen best_idx over        *)
(* known_encodings and is about to read known_names[best_idx] (line 184),  *)
(* the two lists are of one gallery version: best_idx is an index of       *)
(* known_names, and the encoding and the name at best_idx are those of one *)
(* enrolled image of the directory.                                        *)
(***************************************************************************)
C13_AtomicReload ==
    (app = "on" /\ pc = "name") =>
        /\ Len(known_names) = Len(known_encodings)
        /\ best_idx \in DOMAIN known_names
        /\ \E f \in FaceFiles(dir) :
             /\ CleanName(f) = known_names[best_idx]
             /\ dir[f].emb = known_encodings[best_idx]

\* the positions of run() inside its while loop: the worker is Running
RunningPcs == {"loop", "match", "name", "put"}

(***************************************************************************)
(* C14: steady-state errors never crash the pipeline.  When                *)
(* mark_attendance raises (a ledger write failure) in an iteration of the  *)
(* loop the worker stays Running, and the worker leaves Running only when  *)
(* a stop has been requested.                                              *)
(***************************************************************************)
C14_ErrorsKeepRunning ==
    /\ [][(MarkStep /\ ret' = "raised") => pc' \in RunningPcs]_vars
    /\ [][(app' = "on" /\ pc \in RunningPcs /\ pc' \notin RunningPcs) =>
            ~running]_vars

\* run() has returned, or has ended with an exception: the worker is Stopped
Terminated == app = "on" /\ pc \in {"stopped", "crashed"}

(***************************************************************************)
(* C15: in the terminal state of the worker no capture handle is left      *)
(* unreleased.  Stated for the handle that matters, the one that holds a   *)
(* device: whenever run() has returned or ended, self.cap is not an opened *)
(* capture that was never released.                                        *)
(***************************************************************************)
C15_TerminalReleasesHandle == Terminated => cap # "opened"

(***************************************************************************)
(* The application on one calendar day, with a fairly scheduled camera     *)
(* thread and a fairly scheduled _update_frame timer                       *)
(***************************************************************************)

\* the steps of the application while the date stays the same
NextToday ==
    \/ AppStart
    \/ Exit
    \/ InitCamera
    \/ LoopExit
    \/ ReadFail
    \/ ReadFrame
    \/ MatchNone
    \/ MatchFound
    \/ NameAndMark
    \/ CheckFull
    \/ Put
    \/ UpdateFrameEmpty
    \/ UpdateFrame
    \/ OnClosing

\* a step of run() other than a cap.read()
WorkerStep ==
    \/ InitCamera
    \/ LoopExit
    \/ MatchNone
    \/ MatchFound
    \/ NameAndMark
    \/ CheckFull
    \/ Put

\* The camera thread is a running thread of the process: a step of run()
\* that can be taken is eventually taken.  Whether cap.read() delivers a
\* frame is up to the camera, so ReadFrame is not among the fair steps.
\* _update_frame re-arms its timer each time (line 363), so a frame waiting
\* in the queue is eventually taken.
Fairness ==
    /\ WF_vars(WorkerStep)
    /\ WF_vars(UpdateFrame)

FairSpec == Init /\ [][NextToday]_vars /\ Fairness

\* stop() has been called, or init_camera has cleared the flag
StopRequested == app = "on" /\ ~running

(***************************************************************************)
(* C16: cooperative stop.  Once self.running is False the worker           *)
(* eventually leaves the loop and is Stopped (unless the process exits     *)
(* first), also when every cap.read() fails; after stop() it puts at most  *)
(* one more frame on the queue; and from Stopped it never returns to       *)
(* Running.                                                                *)
(***************************************************************************)
C16_CooperativeStop ==
    /\ StopRequested ~> (app = "off" \/ Terminated)
    /\ [](stop_puts <= 1)
    /\ [][(Terminated /\ app' = "on") => pc' = pc]_vars

\* the worker has stopped on a stop request, one frame put after the request
C16_Witness ==
    /\ app = "on"
    /\ pc = "stopped"
    /\ cap = "released"
    /\ stop_puts = 1

\* a step of save_all_frames in which save_new_face raised
SaveFailed == SaveCall /\ ui_pc' = "idle"

\* save_new_face(name, frames) has done its work: the directory holds the
\* image of every frame under its file name
SavedOnDisk(name, frames) ==
    \A i \in 1..Len(frames) :
        /\ FrameFileName(name, i) \in DOMAIN dir
        /\ dir[FrameFileName(name, i)] = frames[i]

CountShown == log_count_text = Cardinality(logged_people)

(***************************************************************************)
(* C18: the UI reflects ledger changes.  Whenever the displayed "TODAY     *)
(* LOGGED" count differs from the size of the logged-today set (a          *)
(* mark_attendance call has added a name), fair scheduling of the          *)
(* _update_frame timer and of the worker leads to their being equal, or to *)
(* the exit of the process.  In particular, once run() has ended and the   *)
(* queue is empty no later _update_frame touches the count, so it is       *)
(* already the size of the set.                                            *)
(***************************************************************************)
C18_CountEventuallyShown ==
    /\ (app = "on" /\ ~CountShown) ~> (app = "off" \/ CountShown)
    /\ []((Terminated /\ frame_queue = <<>>) => CountShown)

\* the ledger holds a row of the name: a line that begins with the name and
\* the comma mark_attendance writes after it (line 111)
HasRow(name) ==
    \E i \in 1..Len(file.lines) : StartsWith(file.lines[i], name \o <<",">>)

(***************************************************************************)
(* C19: the logged-today set stays consistent with what was written.  In   *)
(* every state every name of logged_people has a row in the ledger file,   *)
(* and a mark_attendance call whose write raises leaves logged_people as   *)
(* it was.                                                                 *)
(***************************************************************************)
C19_LoggedSetHasRows ==
    /\ [](\A name \in logged_people : HasRow(name))
    /\ [][(MarkStep /\ ret' = "raised") => logged_people' = logged_people]_vars

\* a ledger write has just failed while names are logged
C19_Witness ==
    /\ app = "on"
    /\ ret = "raised"
    /\ logged_people # {}
    /\ file.exists

====
